---- MODULE Spec2Model ----
(***************************************************************************)
(* The i18n tools of ChillNote: normalize_xcstrings.py (the Normalizer),   *)
(* lint_i18n.py (the lint) and generate_reports.py (the report generator), *)
(* as one state machine over the catalog file and the Swift source tree.   *)
(*                                                                         *)
(* JSON objects (Python dicts) are functions from field names to values; a *)
(* field a dict lacks is a name outside its DOMAIN.  Where the code tests  *)
(* the type of a value (isinstance, truthiness) the value is tagged:       *)
(* [str |-> s], [num |-> n], [dict |-> d].  Strings that the code compares *)
(* or rewrites (catalog keys, literals, values) are sequences of           *)
(* one-character strings.  `strings` is a sequence of [key, value] items,  *)
(* in the insertion order of the Python dict; the order of the fields of   *)
(* the other dicts, which no tool reads, is not kept.  A run that raises   *)
(* ends with status "crash" and writes nothing.                            *)
(***************************************************************************)
EXTENDS Integers, Sequences, FiniteSets, TLC

VARIABLES
    catalog,     \* the parsed content of Localizable.xcstrings on disk
    source,      \* the regex matches of the *.swift files, in rglob order
    tool,        \* the tool that ran last: "none", "normalize", "lint", "report"
    loaded,      \* the catalog data as the last run read it
    normalized,  \* the catalog on disk was written by a Normalizer run
    rerun,       \* the last run was a Normalizer run that read a Normalizer's output
    status,      \* how the last run ended: "none", "ok", "fail", "crash"
    stdout,      \* the lines the last run printed
    written,     \* the files the last run wrote
    errors,      \* lint main's accumulated list `errors`
    inventory,   \* the rows of string_inventory_v1.csv of the last report run
    missingReport \* the summary count and the table rows of missing_keys_report_v1.md

vars == <<catalog, source, tool, loaded, normalized, rerun, status, stdout, written,
          errors, inventory, missingReport>>

-----------------------------------------------------------------------------
(* Python dict and JSON value helpers *)

EmptyDict == << >>

Has(d, f) == f \in DOMAIN d

Get(d, f, default) == IF Has(d, f) THEN d[f] ELSE default

Put(d, f, v) == [x \in (DOMAIN d) \cup {f} |-> IF x = f THEN v ELSE d[x]]

JStr(s) == [str |-> s]

JNum(n) == [num |-> n]

JDict(d) == [dict |-> d]

JNone == [none |-> TRUE]

IsStr(v) == "str" \in DOMAIN v

IsDict(v) == "dict" \in DOMAIN v

\* Python truthiness of a JSON value: None, "" and 0 are false
Truthy(v) ==
    IF "str" \in DOMAIN v THEN Len(v.str) > 0
    ELSE IF "num" \in DOMAIN v THEN v.num # 0
    ELSE IF "dict" \in DOMAIN v THEN DOMAIN v.dict # {}
    ELSE FALSE

\* d.get(f): None when the field is absent
GetOrNone(d, f) == Get(d, f, JNone)

-----------------------------------------------------------------------------
(* normalize_xcstrings.py *)

REQUIRED_LOCALES == <<"en", "zh-Hans", "zh-Hant", "ja", "fr", "de", "es", "ko">>

RequiredSet == {REQUIRED_LOCALES[i] : i \in 1..Len(REQUIRED_LOCALES)}

\* localizations.get('en', {}).get('stringUnit', {}) is a dict: otherwise the
\* following .get('value') raises AttributeError
EnUnitUsable(localizations) ==
    LET en == Get(localizations, "en", EmptyDict)
    IN  Has(en, "stringUnit") => IsDict(en["stringUnit"])

\* a fallback that forgets the English value
fallback_value_key_only(key, localizations) == JStr(key)

fallback_value(key, localizations) ==
    LET en     == Get(localizations, "en", EmptyDict)
        unit   == Get(en, "stringUnit", JDict(EmptyDict)).dict
        en_val == GetOrNone(unit, "value")
    IN  IF IsStr(en_val) /\ Truthy(en_val) THEN en_val ELSE JStr(key)

\* `elif` for the state: a unit whose value was just filled keeps its state
ensure_unit_elif(localizations, locale, value) ==
    LET entry == Get(localizations, locale, EmptyDict)
        got   == GetOrNone(entry, "stringUnit")
        unit0 == IF IsDict(got) THEN got.dict ELSE EmptyDict
        unit2 == IF ~Truthy(GetOrNone(unit0, "value"))
                 THEN Put(unit0, "value", value)
                 ELSE IF ~Has(unit0, "state") \/ unit0["state"] = "new"
                      THEN Put(unit0, "state", "translated") ELSE unit0
    IN  Put(localizations, locale, Put(entry, "stringUnit", JDict(unit2)))

\* the value written without the test of the present one
ensure_unit_overwrite(localizations, locale, value) ==
    LET entry == Get(localizations, locale, EmptyDict)
        got   == GetOrNone(entry, "stringUnit")
        unit0 == IF IsDict(got) THEN got.dict ELSE EmptyDict
        unit1 == Put(unit0, "value", value)
        unit2 == IF ~Has(unit1, "state") \/ unit1["state"] = "new"
                 THEN Put(unit1, "state", "translated") ELSE unit1
    IN  Put(localizations, locale, Put(entry, "stringUnit", JDict(unit2)))

ensure_unit(localizations, locale, value) ==
    LET entry == Get(localizations, locale, EmptyDict)
        got   == GetOrNone(entry, "stringUnit")
        unit0 == IF IsDict(got) THEN got.dict ELSE EmptyDict
        unit1 == IF ~Truthy(GetOrNone(unit0, "value"))
                 THEN Put(unit0, "value", value) ELSE unit0
        unit2 == IF ~Has(unit1, "state") \/ unit1["state"] = "new"
                 THEN Put(unit1, "state", "translated") ELSE unit1
    IN  Put(localizations, locale, Put(entry, "stringUnit", JDict(unit2)))

\* for locale in REQUIRED_LOCALES: ensure_unit(localizations, locale, default_val)
RECURSIVE EnsureAll(_, _, _)
EnsureAll(localizations, i, default_val) ==
    IF i > Len(REQUIRED_LOCALES) THEN localizations
    ELSE EnsureAll(ensure_unit(localizations, REQUIRED_LOCALES[i], default_val),
                   i + 1, default_val)

\* the loop over localizations.values() that flips every state "new"
SweepNew(localizations) ==
    [loc \in DOMAIN localizations |->
        LET locale_data == localizations[loc]
            unit == GetOrNone(locale_data, "stringUnit")
        IN  IF IsDict(unit) /\ Has(unit.dict, "state") /\ unit.dict["state"] = "new"
            THEN Put(locale_data, "stringUnit",
                     JDict(Put(unit.dict, "state", "translated")))
            ELSE locale_data]

\* one iteration of main's loop over strings.items(): the entry after it
NormalizeEntry(key, value) ==
    LET localizations == Get(value, "localizations", EmptyDict)
        default_val   == fallback_value(key, localizations)
    IN  Put(value, "localizations",
            SweepNew(EnsureAll(localizations, 1, default_val)))

StringsOf(data) == Get(data, "strings", << >>)

\* main's loop raises on an entry whose 'en' stringUnit is not a dict
NormalizeRaises(data) ==
    \E i \in 1..Len(StringsOf(data)) :
        ~EnUnitUsable(Get(StringsOf(data)[i].value, "localizations", EmptyDict))

\* data.setdefault('strings', {}) in place of data.get('strings', {})
NormalizeData_setdefault(data) ==
    Put(data, "strings",
        [i \in 1..Len(StringsOf(data)) |->
            [key   |-> StringsOf(data)[i].key,
             value |-> NormalizeEntry(StringsOf(data)[i].key,
                                      StringsOf(data)[i].value)]])

\* the data main passes to json.dumps: `strings` is mutated in place when the
\* root has the field, and is a detached {} when it has not
NormalizeData(data) ==
    IF Has(data, "strings")
    THEN Put(data, "strings",
             [i \in 1..Len(data["strings"]) |->
                 [key   |-> data["strings"][i].key,
                  value |-> NormalizeEntry(data["strings"][i].key,
                                           data["strings"][i].value)]])
    ELSE data

-----------------------------------------------------------------------------
(* The literal scan shared, as duplicated code, by lint_i18n.py and        *)
(* generate_reports.py.  `source` holds one record per match of            *)
(* UI_LITERAL_PATTERN: file, the line of match.start(), group1 (the        *)
(* construct name, "" when the alternative has none) and raw (the text of  *)
(* the capture group that took part in the match).                         *)

BS == "\\"

QT == "\""

NL == "\n"

\* str.replace of a two-character pattern <<a, b>> by r: left to right,
\* non-overlapping
RECURSIVE Replace2(_, _, _, _)
Replace2(s, a, b, r) ==
    IF Len(s) < 2 THEN s
    ELSE IF s[1] = a /\ s[2] = b
         THEN r \o Replace2(Tail(Tail(s)), a, b, r)
         ELSE <<s[1]>> \o Replace2(Tail(s), a, b, r)

\* literal.replace('\\n', '\n') then literal.replace('\\"', '"')
Resolve(raw) == Replace2(Replace2(raw, BS, "n", <<NL>>), BS, QT, <<QT>>)

\* `pat in s` for strings
Contains(s, pat) ==
    \E i \in 0..(Len(s) - Len(pat)) :
        \A j \in 1..Len(pat) : s[i + j] = pat[j]

\* '\\(' in literal
HasInterpolation(literal) == Contains(literal, <<BS, "(">>)

\* `if not literal: continue`
Captured(m) == Len(m.raw) > 0

iter_swift_literals(src) ==
    LET kept == SelectSeq(src, Captured)
    IN  [i \in 1..Len(kept) |->
            [key        |-> Resolve(kept[i].raw),
             file       |-> kept[i].file,
             line       |-> kept[i].line,
             is_dynamic |-> HasInterpolation(Resolve(kept[i].raw)),
             context    |-> IF kept[i].group1 # "" THEN kept[i].group1
                            ELSE "modifier"]]

-----------------------------------------------------------------------------
(* lint_i18n.py *)

\* `elif` for the empty value: at most one error for a pair
PairErrors_elif(key, localizations, locale) ==
    LET unit == GetOrNone(Get(localizations, locale, EmptyDict), "stringUnit")
    IN  IF ~IsDict(unit)
        THEN <<[kind |-> "missing locale", key |-> key, locale |-> locale]>>
        ELSE IF Has(unit.dict, "state") /\ unit.dict["state"] = "new"
        THEN <<[kind |-> "state=new", key |-> key, locale |-> locale]>>
        ELSE IF ~Truthy(GetOrNone(unit.dict, "value"))
        THEN <<[kind |-> "empty value", key |-> key, locale |-> locale]>>
        ELSE << >>

\* the errors check_catalog appends for one key and one locale
PairErrors(key, localizations, locale) ==
    LET unit == GetOrNone(Get(localizations, locale, EmptyDict), "stringUnit")
    IN  IF ~IsDict(unit)
        THEN <<[kind |-> "missing locale", key |-> key, locale |-> locale]>>
        ELSE (IF Has(unit.dict, "state") /\ unit.dict["state"] = "new"
              THEN <<[kind |-> "state=new", key |-> key, locale |-> locale]>>
              ELSE << >>)
             \o
             (IF ~Truthy(GetOrNone(unit.dict, "value"))
              THEN <<[kind |-> "empty value", key |-> key, locale |-> locale]>>
              ELSE << >>)

RECURSIVE LocaleErrors(_, _, _)
LocaleErrors(key, localizations, i) ==
    IF i > Len(REQUIRED_LOCALES) THEN << >>
    ELSE PairErrors(key, localizations, REQUIRED_LOCALES[i])
         \o LocaleErrors(key, localizations, i + 1)

RECURSIVE EntryErrors(_, _)
EntryErrors(strings, i) ==
    IF i > Len(strings) THEN << >>
    ELSE LocaleErrors(strings[i].key,
                      Get(strings[i].value, "localizations", EmptyDict), 1)
         \o EntryErrors(strings, i + 1)

check_catalog(data) == EntryErrors(StringsOf(data), 1)

KeySet(data) == {StringsOf(data)[i].key : i \in 1..Len(StringsOf(data))}

\* the scan without `if '\\(' in literal: continue`
check_swift_literals_no_exemption(data, src) ==
    LET keys == KeySet(data)
        Orphan(m) == Len(m.raw) > 0 /\ Resolve(m.raw) \notin keys
        kept == SelectSeq(src, Orphan)
    IN  [i \in 1..Len(kept) |->
            [kind |-> "literal not in catalog", file |-> kept[i].file,
             line |-> kept[i].line, literal |-> Resolve(kept[i].raw)]]

check_swift_literals(data, src) ==
    LET keys == KeySet(data)
        Orphan(m) == /\ Len(m.raw) > 0
                     /\ ~HasInterpolation(Resolve(m.raw))
                     /\ Resolve(m.raw) \notin keys
        kept == SelectSeq(src, Orphan)
    IN  [i \in 1..Len(kept) |->
            [kind |-> "literal not in catalog", file |-> kept[i].file,
             line |-> kept[i].line, literal |-> Resolve(kept[i].raw)]]

\* what main prints for the accumulated list
LintOutput(errs) ==
    IF Len(errs) > 0
    THEN errs \o <<[kind |-> "FAIL", count |-> Len(errs)]>>
    ELSE <<[kind |-> "PASS"]>>

\* an exit code that forgives a single error
LintExit_forgiving(errs) == IF Len(errs) > 1 THEN "fail" ELSE "ok"

LintExit(errs) == IF Len(errs) > 0 THEN "fail" ELSE "ok"

-----------------------------------------------------------------------------
(* generate_reports.py *)

MediumLength == 48

MissingCap == 400

risk_level(literal) ==
    IF \/ Contains(literal, <<BS, "(">>)
       \/ Contains(literal, <<"%", "@">>)
       \/ Contains(literal, <<"%", "l", "l", "d">>)
    THEN "high"
    ELSE IF Len(literal) > MediumLength THEN "medium"
    ELSE "low"

generate_inventory(strings_keys, src) ==
    LET rows == iter_swift_literals(src)
    IN  [i \in 1..Len(rows) |->
            [key        |-> rows[i].key,
             file       |-> rows[i].file,
             line       |-> rows[i].line,
             context    |-> rows[i].context,
             is_dynamic |-> rows[i].is_dynamic,
             in_catalog |-> rows[i].key \in strings_keys,
             risk       |-> risk_level(rows[i].key)]]

\* row['key'].replace('|', '\\|')
RECURSIVE EscapePipe(_)
EscapePipe(s) ==
    IF Len(s) = 0 THEN s
    ELSE (IF s[1] = "|" THEN <<BS, "|">> ELSE <<s[1]>>) \o EscapePipe(Tail(s))

Min(a, b) == IF a < b THEN a ELSE b

\* the summary counting the rows shown: len(missing[:400])
generate_missing_report_capped_total(strings_keys, src) ==
    LET literals == iter_swift_literals(src)
        NotInKeys(row) == row.key \notin strings_keys
        missing == SelectSeq(literals, NotInKeys)
        shown == SubSeq(missing, 1, Min(Len(missing), MissingCap))
    IN  [total |-> Len(shown),
         rows  |-> [i \in 1..Len(shown) |->
                      [key     |-> EscapePipe(shown[i].key),
                       file    |-> shown[i].file,
                       line    |-> shown[i].line,
                       dynamic |-> IF shown[i].is_dynamic THEN "yes" ELSE "no"]]]

generate_missing_report(strings_keys, src) ==
    LET literals == iter_swift_literals(src)
        NotInKeys(row) == row.key \notin strings_keys
        missing == SelectSeq(literals, NotInKeys)
        shown == SubSeq(missing, 1, Min(Len(missing), MissingCap))
    IN  [total |-> Len(missing),
         rows  |-> [i \in 1..Len(shown) |->
                      [key     |-> EscapePipe(shown[i].key),
                       file    |-> shown[i].file,
                       line    |-> shown[i].line,
                       dynamic |-> IF shown[i].is_dynamic THEN "yes" ELSE "no"]]]

NoReport == [total |-> 0, rows |-> << >>]

-----------------------------------------------------------------------------
(* The three tools; each action is one whole run of a main() *)

\* normalize_xcstrings.main
Normalize ==
    /\ tool' = "normalize"
    /\ loaded' = catalog
    /\ IF NormalizeRaises(catalog)
       THEN /\ catalog' = catalog
            /\ normalized' = normalized
            /\ rerun' = FALSE
            /\ status' = "crash"
            /\ stdout' = << >>
            /\ written' = {}
       ELSE /\ catalog' = NormalizeData(catalog)
            /\ normalized' = TRUE
            /\ rerun' = normalized
            /\ status' = "ok"
            /\ stdout' = <<[kind |-> "Normalized",
                            count |-> Len(StringsOf(catalog))]>>
            /\ written' = {"Localizable.xcstrings"}
    /\ errors' = << >>
    /\ inventory' = << >>
    /\ missingReport' = NoReport
    /\ UNCHANGED source

\* lint_i18n.main
Lint ==
    LET errs == check_catalog(catalog) \o check_swift_literals(catalog, source)
    IN  /\ tool' = "lint"
        /\ loaded' = catalog
        /\ errors' = errs
        /\ stdout' = LintOutput(errs)
        /\ status' = LintExit(errs)
        /\ written' = {}
        /\ inventory' = << >>
        /\ missingReport' = NoReport
        /\ rerun' = FALSE
        /\ UNCHANGED <<catalog, source, normalized>>

\* generate_reports.main; load_catalog returns data.get('strings', {})
Report ==
    /\ tool' = "report"
    /\ loaded' = catalog
    /\ inventory' = generate_inventory(KeySet(catalog), source)
    /\ missingReport' = generate_missing_report(KeySet(catalog), source)
    /\ written' = {"string_inventory_v1.csv", "missing_keys_report_v1.md",
                   "glossary_v1.md"}
    /\ stdout' = <<[kind |-> "Generated", file |-> "string_inventory_v1.csv"],
                   [kind |-> "Generated", file |-> "missing_keys_report_v1.md"],
                   [kind |-> "Generated", file |-> "glossary_v1.md"]>>
    /\ status' = "ok"
    /\ errors' = << >>
    /\ rerun' = FALSE
    /\ UNCHANGED <<catalog, source, normalized>>

Next == Normalize \/ Lint \/ Report

-----------------------------------------------------------------------------
(* The inputs: catalogs and source trees the tools can be run on *)

MaxEntries == 2

K_Empty == << >>

K_Save == <<"S", "a", "v", "e">>

K_Delete == <<"D", "e", "l", "?">>

InputKeys == {K_Empty, K_Save, K_Delete}

\* the locale sets an input entry may carry: 'en' and at most one other
\* locale, "it" being a locale outside REQUIRED_LOCALES
InputDomains == {{}, {"en"}, {"fr"}, {"it"}, {"en", "fr"}, {"en", "it"}}

InputValues(locale) ==
    IF locale = "en" THEN {JNone, JStr(<< >>), JStr(<<"O", "K">>), JNum(7)}
    ELSE IF locale = "fr" THEN {JNone, JStr(<< >>), JStr(<<"o", "u", "i">>)}
    ELSE {JNone, JStr(<< >>), JStr(<<"s", "i">>)}

\* "" stands for a unit without the field
InputStates == {"", "new", "needs_review"}

MkUnit(v, st) ==
    [f \in (IF v = JNone THEN {} ELSE {"value"}) \cup
           (IF st = "" THEN {} ELSE {"state"}) |->
        IF f = "value" THEN v ELSE st]

\* a localization without stringUnit, one whose stringUnit is not an object,
\* and every unit over the input values and states
InputLocaleData(locale) ==
    {[variations |-> "plural"], [stringUnit |-> JStr(<<"x">>)]}
    \cup {[stringUnit |-> JDict(MkUnit(v, st))] :
             v \in InputValues(locale), st \in InputStates}

WellShaped(localizations) ==
    \A l \in DOMAIN localizations : localizations[l] \in InputLocaleData(l)

InputLocalizations ==
    UNION {{L \in [D -> UNION {InputLocaleData(l) : l \in D}] : WellShaped(L)} :
              D \in InputDomains}

RichEntries ==
    {EmptyDict} \cup {[comment |-> "c", localizations |-> L] : L \in InputLocalizations}

CompleteEntry ==
    [localizations |->
        [l \in RequiredSet |->
            [stringUnit |-> JDict([value |-> JStr(<<"t">>), state |-> "translated"])]]]

\* the entry a key has where the catalog holds it beside the varied entry
PlainFor(key) == IF key = K_Save THEN CompleteEntry ELSE EmptyDict

\* sequences of n distinct keys
KeySeqs(n) ==
    {ks \in [1..n -> InputKeys] : \A i, j \in 1..n : i # j => ks[i] # ks[j]}

\* the `strings` of n entries whose entry at pos has any shape
StringsWith(n, pos) ==
    {[i \in 1..n |-> [key |-> ks[i],
                      value |-> IF i = pos THEN rich ELSE PlainFor(ks[i])]] :
        ks \in KeySeqs(n), rich \in RichEntries}

InputStrings ==
    {<< >>}
    \cup UNION {UNION {StringsWith(n, pos) : pos \in 1..n} : n \in 1..MaxEntries}

\* catalogs: with `strings`, and one whose root lacks the field
InputCatalogs ==
    {[sourceLanguage |-> "en"]}
    \cup {[sourceLanguage |-> "en", strings |-> ss] : ss \in InputStrings}

\* Text("Save") on line 3 of A.swift
M_Save == [file |-> "A.swift", line |-> 3, group1 |-> "Text", raw |-> K_Save]

InitRun ==
    /\ tool = "none"
    /\ loaded = EmptyDict
    /\ normalized = FALSE
    /\ rerun = FALSE
    /\ status = "none"
    /\ stdout = << >>
    /\ written = {}
    /\ errors = << >>
    /\ inventory = << >>
    /\ missingReport = NoReport

Init ==
    /\ catalog \in InputCatalogs
    /\ source = <<M_Save>>
    /\ InitRun

Spec == Init /\ [][Next]_vars

-----------------------------------------------------------------------------
(* Inputs of the literal scan *)

MaxRaw == 2

MaxMatches == 3

Alphabet == {"a", "n", "(", BS, QT}

\* the texts the capture group (?:\\.|[^"\\])* can hold: a backslash takes
\* the next character with it, a quote never stands alone
RECURSIVE WellEscaped(_)
WellEscaped(s) ==
    IF Len(s) = 0 THEN TRUE
    ELSE IF s[1] = BS THEN Len(s) >= 2 /\ WellEscaped(Tail(Tail(s)))
    ELSE s[1] # QT /\ WellEscaped(Tail(s))

RawTexts ==
    {s \in UNION {[1..n -> Alphabet] : n \in 0..MaxRaw} : WellEscaped(s)}

\* the literal every second match of an input tree holds
Partners == {<<"a">>, <<BS, "(">>}

\* n matches on consecutive lines: raw in Text(...) on the odd ones, partner
\* in a modifier on the even ones
SourceOf(raw, partner, n) ==
    [i \in 1..n |->
        IF i % 2 = 1
        THEN [file |-> "A.swift", line |-> i, group1 |-> "Text", raw |-> raw]
        ELSE [file |-> "A.swift", line |-> i, group1 |-> "", raw |-> partner]]

ShortSources ==
    {SourceOf(r, p, n) : r \in RawTexts, p \in Partners, n \in 0..MaxMatches}

LongRaws == {<<"n">>, <<BS, "n">>}

\* trees with more literals than the missing-keys table shows
LongSources ==
    {SourceOf(r, p, n) : r \in LongRaws, p \in Partners,
                         n \in {2 * MissingCap, 2 * MissingCap + 2}}

ScanKeys == <<(<<"a">>), (<<NL>>), (<<BS, "(">>)>>

ScanEntry(key) ==
    [key |-> key, value |-> IF key = <<"a">> THEN CompleteEntry ELSE EmptyDict]

RECURSIVE Pick(_, _)
Pick(ks, chosen) ==
    IF Len(ks) = 0 THEN << >>
    ELSE (IF ks[1] \in chosen THEN <<ScanEntry(ks[1])>> ELSE << >>)
         \o Pick(Tail(ks), chosen)

ScanCatalogs ==
    {[sourceLanguage |-> "en"]}
    \cup {[sourceLanguage |-> "en", strings |-> Pick(ScanKeys, chosen)] :
             chosen \in SUBSET {ScanKeys[i] : i \in 1..Len(ScanKeys)}}

InitLint ==
    /\ catalog \in ScanCatalogs
    /\ source \in ShortSources
    /\ InitRun

SpecLint == InitLint /\ [][Next]_vars

InitReport ==
    /\ catalog \in ScanCatalogs
    /\ source \in ShortSources \cup LongSources
    /\ InitRun

SpecReport == InitReport /\ [][Next]_vars

-----------------------------------------------------------------------------
(* Vocabulary of the properties *)

EntryCount(data) == Len(StringsOf(data))

KeyAt(data, i) == StringsOf(data)[i].key

LocsAt(data, i) == Get(StringsOf(data)[i].value, "localizations", EmptyDict)

\* the stringUnit of entry i for a locale, JNone when there is none
UnitAt(data, i, locale) ==
    GetOrNone(Get(LocsAt(data, i), locale, EmptyDict), "stringUnit")

WellFormed(unit) == "dict" \in DOMAIN unit

NonEmptyValue(unit) ==
    /\ WellFormed(unit)
    /\ "value" \in DOMAIN unit.dict
    /\ IF "str" \in DOMAIN unit.dict["value"]
       THEN unit.dict["value"].str # << >>
       ELSE unit.dict["value"] # JNum(0)

HasState(unit, st) ==
    WellFormed(unit) /\ "state" \in DOMAIN unit.dict /\ unit.dict["state"] = st

StateAbsentOrNew(unit) ==
    ~WellFormed(unit) \/ "state" \notin DOMAIN unit.dict \/ unit.dict["state"] = "new"

NormalizedOk == tool = "normalize" /\ status = "ok"

\* the fallback as the specification words it
EnglishOrKey(data, i) ==
    LET en == UnitAt(data, i, "en")
    IN  IF /\ NonEmptyValue(en)
           /\ "str" \in DOMAIN en.dict["value"]
        THEN en.dict["value"]
        ELSE [str |-> KeyAt(data, i)]

-----------------------------------------------------------------------------
(* C1: after a Normalizer run every entry has, for every required locale,  *)
(* a unit with a non-empty value and a state other than "new", and no unit *)
(* of any locale is left in state "new".                                   *)
C1_Complete ==
    NormalizedOk =>
        \A i \in 1..EntryCount(catalog) :
            /\ \A locale \in RequiredSet :
                  /\ NonEmptyValue(UnitAt(catalog, i, locale))
                  /\ ~HasState(UnitAt(catalog, i, locale), "new")
            /\ \A locale \in DOMAIN LocsAt(catalog, i) :
                  ~HasState(UnitAt(catalog, i, locale), "new")

(* C2: a Normalizer run on the output of a Normalizer run writes the       *)
(* catalog it read: no value, no state and no unit changes.                *)
C2_Idempotent ==
    (NormalizedOk /\ rerun) => catalog = loaded

\* a second run over a catalog whose first run had units to create
C2_Witness ==
    /\ NormalizedOk /\ rerun
    /\ \E i \in 1..EntryCount(catalog) :
          /\ KeyAt(catalog, i) = K_Delete
          /\ UnitAt(catalog, i, "fr") = JDict([value |-> JStr(K_Delete),
                                               state |-> "translated"])

(* C3 as claimed: every required locale whose unit was absent or whose     *)
(* value was empty or absent ends with the fallback (the English value as  *)
(* it was, if a non-empty string, else the key) and state "translated".    *)
C3_Original ==
    NormalizedOk =>
        \A i \in 1..EntryCount(catalog) : \A locale \in RequiredSet :
            ~NonEmptyValue(UnitAt(loaded, i, locale)) =>
                /\ WellFormed(UnitAt(catalog, i, locale))
                /\ UnitAt(catalog, i, locale).dict["value"] = EnglishOrKey(loaded, i)
                /\ UnitAt(catalog, i, locale).dict["state"] = "translated"

(* C3 amended: such a locale ends with the fallback as its value; its      *)
(* state ends "translated" when the unit was absent or its state was       *)
(* absent or "new", and is the state it had otherwise.                     *)
C3_Fallback ==
    NormalizedOk =>
        \A i \in 1..EntryCount(catalog) : \A locale \in RequiredSet :
            ~NonEmptyValue(UnitAt(loaded, i, locale)) =>
                /\ WellFormed(UnitAt(catalog, i, locale))
                /\ UnitAt(catalog, i, locale).dict["value"] = EnglishOrKey(loaded, i)
                /\ UnitAt(catalog, i, locale).dict["state"] =
                      IF StateAbsentOrNew(UnitAt(loaded, i, locale))
                      THEN "translated"
                      ELSE UnitAt(loaded, i, locale).dict["state"]

\* an entry with an English value and no French unit got the English value
C3_Witness ==
    /\ NormalizedOk
    /\ \E i \in 1..EntryCount(loaded) :
          /\ NonEmptyValue(UnitAt(loaded, i, "en"))
          /\ "fr" \notin DOMAIN LocsAt(loaded, i)
          /\ UnitAt(catalog, i, "fr") =
                JDict([value |-> UnitAt(loaded, i, "en").dict["value"],
                       state |-> "translated"])

(* C4: a Normalizer run changes nothing but (a) the value of a required    *)
(* locale's unit that was empty or absent, (b) the state of a required     *)
(* locale's unit that was absent or "new", (c) the state "new" of any      *)
(* other locale's unit.  Every non-empty value, every key and its          *)
(* position, and every other field of the root, of an entry and of a       *)
(* localization are as they were; a locale outside the required set gets   *)
(* no unit and no value.                                                   *)
C4_Frame ==
    NormalizedOk =>
        /\ DOMAIN catalog = DOMAIN loaded
        /\ \A f \in DOMAIN loaded \ {"strings"} : catalog[f] = loaded[f]
        /\ EntryCount(catalog) = EntryCount(loaded)
        /\ \A i \in 1..EntryCount(loaded) :
            LET before == StringsOf(loaded)[i].value
                after  == StringsOf(catalog)[i].value
            IN  /\ KeyAt(catalog, i) = KeyAt(loaded, i)
                /\ DOMAIN after = DOMAIN before \cup {"localizations"}
                /\ \A f \in DOMAIN before \ {"localizations"} : after[f] = before[f]
                /\ DOMAIN LocsAt(catalog, i) = DOMAIN LocsAt(loaded, i) \cup RequiredSet
                /\ \A locale \in DOMAIN LocsAt(catalog, i) :
                    LET old == Get(LocsAt(loaded, i), locale, EmptyDict)
                        new == LocsAt(catalog, i)[locale]
                        ou  == UnitAt(loaded, i, locale)
                        nu  == UnitAt(catalog, i, locale)
                    IN  /\ DOMAIN new \subseteq DOMAIN old \cup {"stringUnit"}
                        /\ \A f \in DOMAIN old \ {"stringUnit"} :
                              f \in DOMAIN new /\ new[f] = old[f]
                        /\ IF locale \in RequiredSet
                           THEN WellFormed(ou) =>
                                  /\ WellFormed(nu)
                                  /\ DOMAIN nu.dict = DOMAIN ou.dict \cup {"value", "state"}
                                  /\ \A f \in DOMAIN ou.dict \ {"value", "state"} :
                                        nu.dict[f] = ou.dict[f]
                                  /\ NonEmptyValue(ou) =>
                                        nu.dict["value"] = ou.dict["value"]
                                  /\ ~StateAbsentOrNew(ou) =>
                                        nu.dict["state"] = ou.dict["state"]
                           ELSE /\ locale \in DOMAIN LocsAt(loaded, i)
                                /\ IF HasState(ou, "new")
                                   THEN new = [old EXCEPT !["stringUnit"] =
                                             [dict |-> [ou.dict EXCEPT
                                                          !["state"] = "translated"]]]
                                   ELSE new = old

\* a run over an entry with a comment, an English unit under review and an
\* Italian unit that is empty and new
C4_Witness ==
    /\ NormalizedOk
    /\ \E i \in 1..EntryCount(loaded) :
          /\ "comment" \in DOMAIN StringsOf(loaded)[i].value
          /\ UnitAt(loaded, i, "en") = JDict([value |-> JStr(<<"O", "K">>),
                                              state |-> "needs_review"])
          /\ UnitAt(loaded, i, "it") = JDict([value |-> JStr(<< >>), state |-> "new"])
          /\ UnitAt(catalog, i, "it") = JDict([value |-> JStr(<< >>),
                                               state |-> "translated"])
          /\ UnitAt(catalog, i, "en") = UnitAt(loaded, i, "en")

-----------------------------------------------------------------------------
CatalogKinds == {"missing locale", "state=new", "empty value"}

Count(seq, x) == Cardinality({k \in 1..Len(seq) : seq[k] = x})

(* C6: check_catalog reports, for every key and every required locale,     *)
(* exactly one 'missing locale' error and nothing else when the unit is    *)
(* absent or not well-formed; otherwise a 'state=new' error iff the state  *)
(* is "new" and an 'empty value' error iff the value is empty or absent.   *)
C6_Coverage ==
    tool = "lint" =>
        /\ \A i \in 1..EntryCount(loaded) : \A locale \in RequiredSet :
              LET unit == UnitAt(loaded, i, locale)
                  N(kind) == Count(errors, [kind |-> kind, key |-> KeyAt(loaded, i),
                                            locale |-> locale])
              IN  IF ~WellFormed(unit)
                  THEN N("missing locale") = 1 /\ N("state=new") = 0
                       /\ N("empty value") = 0
                  ELSE /\ N("missing locale") = 0
                       /\ N("state=new") = (IF HasState(unit, "new") THEN 1 ELSE 0)
                       /\ N("empty value") = (IF NonEmptyValue(unit) THEN 0 ELSE 1)
        /\ \A k \in 1..Len(errors) :
              errors[k].kind \in CatalogKinds =>
                  /\ errors[k].locale \in RequiredSet
                  /\ \E i \in 1..EntryCount(loaded) : KeyAt(loaded, i) = errors[k].key

\* a lint run over a unit that is both new and empty, and one that is absent
C6_Witness ==
    /\ tool = "lint"
    /\ \E i \in 1..EntryCount(loaded) :
          /\ HasState(UnitAt(loaded, i, "fr"), "new")
          /\ ~NonEmptyValue(UnitAt(loaded, i, "fr"))
          /\ ~WellFormed(UnitAt(loaded, i, "de"))
          /\ Count(errors, [kind |-> "state=new", key |-> KeyAt(loaded, i),
                            locale |-> "fr"]) = 1
          /\ Count(errors, [kind |-> "empty value", key |-> KeyAt(loaded, i),
                            locale |-> "fr"]) = 1

(* C10: after a Normalizer run, and after any number of further runs,      *)
(* check_catalog finds no coverage error in the written catalog.           *)
C10_NormalizedPassesLint ==
    (tool = "lint" /\ normalized) =>
        \A k \in 1..Len(errors) : errors[k].kind \notin CatalogKinds

-----------------------------------------------------------------------------
IsOrphanError(e) == e.kind = "literal not in catalog"

\* the occurrence is an extracted literal: its capture is not empty
Extracted(m) == m.raw # << >>

\* the literal, escapes resolved, holds the interpolation marker \(
Dynamic(m) ==
    LET text == Resolve(m.raw)
    IN  \E k \in 1..(Len(text) - 1) : text[k] = BS /\ text[k + 1] = "("

(* C7: check_swift_literals reports exactly one orphan-literal error for   *)
(* an extracted literal occurrence iff the literal, escapes resolved, has  *)
(* no interpolation marker and is no key of the catalog; a dynamic literal *)
(* and a literal that is a key are never reported.                         *)
C7_Orphans ==
    tool = "lint" =>
        /\ \A j \in 1..Len(source) :
              LET m == source[j]
                  N == Cardinality({k \in 1..Len(errors) :
                          /\ IsOrphanError(errors[k])
                          /\ errors[k].file = m.file
                          /\ errors[k].line = m.line})
              IN  /\ N = (IF /\ Extracted(m)
                             /\ ~Dynamic(m)
                             /\ Resolve(m.raw) \notin KeySet(loaded)
                          THEN 1 ELSE 0)
                  /\ \A k \in 1..Len(errors) :
                        (/\ IsOrphanError(errors[k])
                         /\ errors[k].file = m.file
                         /\ errors[k].line = m.line) =>
                            errors[k].literal = Resolve(m.raw)
        /\ \A k \in 1..Len(errors) :
              IsOrphanError(errors[k]) =>
                  \E j \in 1..Len(source) :
                      source[j].file = errors[k].file /\ source[j].line = errors[k].line

\* a lint run over a dynamic literal that is no key, between two occurrences
\* of a plain literal that is no key either
C7_Witness ==
    /\ tool = "lint"
    /\ Len(source) = 3
    /\ source[1].raw = <<"n">>
    /\ source[2].raw = <<BS, "(">>
    /\ <<BS, "(">> \notin KeySet(loaded)
    /\ Cardinality({k \in 1..Len(errors) : IsOrphanError(errors[k])}) = 2

(* C8: every row of the missing-keys table is an inventory row whose       *)
(* in_catalog is false; the table holds the first 400 such rows in         *)
(* extraction order, repeated literals repeated; the summary states their  *)
(* exact number and the table has min(that number, 400) rows.              *)
C8_MissingReport ==
    tool = "report" =>
        LET NotInCatalog(row) == ~row.in_catalog
            absent == SelectSeq(inventory, NotInCatalog)
        IN  /\ missingReport.total = Len(absent)
            /\ Len(missingReport.rows) =
                  (IF Len(absent) <= 400 THEN Len(absent) ELSE 400)
            /\ \A k \in 1..Len(missingReport.rows) :
                  /\ missingReport.rows[k].key = EscapePipe(absent[k].key)
                  /\ missingReport.rows[k].file = absent[k].file
                  /\ missingReport.rows[k].line = absent[k].line
                  /\ missingReport.rows[k].dynamic = "yes" <=> absent[k].is_dynamic

\* a report over 401 literals that are not in the catalog among 401 that are
C8_Witness ==
    /\ tool = "report"
    /\ missingReport.total = 401
    /\ Len(missingReport.rows) = 400
    /\ Len(inventory) = 802
    /\ inventory[2].in_catalog

(* C9: a lint run ends with exit code 0 and the single success line iff    *)
(* check_catalog and check_swift_literals produced no error; otherwise it  *)
(* prints every error, the coverage errors before the orphan-literal       *)
(* errors, then a failure summary with their number, and ends with 1.      *)
C9_LintOutcome ==
    tool = "lint" =>
        /\ errors = check_catalog(loaded) \o check_swift_literals(loaded, source)
        /\ \A j, k \in 1..Len(errors) :
              (IsOrphanError(errors[j]) /\ errors[k].kind \in CatalogKinds) => k < j
        /\ IF errors = << >>
           THEN status = "ok" /\ stdout = <<[kind |-> "PASS"]>>
           ELSE /\ status = "fail"
                /\ Len(stdout) = Len(errors) + 1
                /\ SubSeq(stdout, 1, Len(errors)) = errors
                /\ stdout[Len(stdout)] = [kind |-> "FAIL", count |-> Len(errors)]

\* a failing run with exactly one error, and that of the orphan kind
C9_Witness ==
    /\ tool = "lint"
    /\ Len(errors) = 1
    /\ IsOrphanError(errors[1])
    /\ status = "fail"

====
